---- MODULE Spec2Model ----
(***************************************************************************)
(* Model of src/src/lib.rs: HandleKey (a three-variant key) and Handle<T>  *)
(* (a key plus an optional Arc<()> whose strong count tells how many       *)
(* clones of a dynamically created handle exist).                          *)
(*                                                                         *)
(* Spec      the handlers new / from_static / clone / drop run one at a    *)
(*           time on a population of handles.                              *)
(* ConcSpec  several threads clone and drop handles concurrently; clone    *)
(*           and drop are split at the atomic operations of Arc.           *)
(***************************************************************************)
EXTENDS Integers, Sequences, FiniteSets, Bags, TLC

\* ---------------------------------------------------------------- bounds
MaxLen == 1          \* longest text used as a label
MaxNum == 1          \* largest usize used as a numeric key
MaxHandles == 3      \* handles existing at the same time
MaxArcs == 2         \* Arc allocations made in one run
NumThreads == 2      \* threads of ConcSpec
HashMod == 16        \* range of the hasher's output

Chars == {1, 2}
Texts == UNION {[1..n -> Chars] : n \in 0..MaxLen}
Nums == 0..MaxNum
Arcs == 1..MaxArcs
Threads == 1..NumThreads

\* ------------------------------------------------------------- HandleKey
\* enum HandleKey { Str(&'static str), String(String), Number(usize) }
Str(s) == [tag |-> "Str", text |-> s, num |-> 0]
String(s) == [tag |-> "String", text |-> s, num |-> 0]
Number(n) == [tag |-> "Number", text |-> <<>>, num |-> n]

HandleKey == {Str(s) : s \in Texts} \cup {String(s) : s \in Texts}
             \cup {Number(n) : n \in Nums}

\* #[derive(PartialEq)]: the discriminants are compared first, then the
\* payload of the common variant.
KeyEqLoose(a, b) ==
    IF a.tag = "Number" \/ b.tag = "Number"
    THEN a.tag = b.tag /\ a.num = b.num
    ELSE a.text = b.text

KeyEq(a, b) ==
    /\ a.tag = b.tag
    /\ CASE a.tag = "Str" -> a.text = b.text
         [] a.tag = "String" -> a.text = b.text
         [] a.tag = "Number" -> a.num = b.num

\* #[derive(Hash)]: the discriminant is written to the hasher, then the
\* payload; a str writes its bytes followed by 0xff, a usize writes itself.
Discriminant(k) ==
    CASE k.tag = "Str" -> 0
      [] k.tag = "String" -> 1
      [] k.tag = "Number" -> 2

KeyHashFeed(k) ==
    <<Discriminant(k)>> \o
    (IF k.tag = "Number" THEN <<k.num>> ELSE k.text \o <<255>>)

\* The Hasher H is generic; this one folds the writes into HashMod buckets.
RECURSIVE HasherWrite(_, _)
HasherWrite(h, feed) ==
    IF feed = <<>> THEN h
    ELSE HasherWrite((h * 31 + Head(feed)) % HashMod, Tail(feed))

KeyHash(k) == HasherWrite(0, KeyHashFeed(k))

\* ------------------------------------------------- conversions into a key
\* str::to_string and String::clone copy the text into a new allocation.
to_string(s) == [i \in 1..Len(s) |-> s[i]]
StringClone(s) == [i \in 1..Len(s) |-> s[i]]

FromString(s) == String(s)
FromRefString(s) == String(StringClone(s))
FromUsize(n) == Number(n)
FromStrStatic(s) == Str(s)
FromStrAsStatic(s) == Str(s)

FromStr(s) == FromString(to_string(s))

\* #[derive(Clone)] for HandleKey: a Str copies the reference, a String
\* clones its text, a Number copies the integer.
KeyCloneOwned(k) ==
    CASE k.tag = "Str" -> String(to_string(k.text))
      [] k.tag = "String" -> String(StringClone(k.text))
      [] k.tag = "Number" -> Number(k.num)

KeyClone(k) ==
    CASE k.tag = "Str" -> Str(k.text)
      [] k.tag = "String" -> String(StringClone(k.text))
      [] k.tag = "Number" -> Number(k.num)

\* The values Handle::new accepts: K with HandleKey: From<K>.
Input(kind, s, n) == [kind |-> kind, text |-> s, num |-> n]
Inputs == {Input(kind, s, 0) : kind \in {"String", "&String", "&str"}, s \in Texts}
          \cup {Input("usize", <<>>, n) : n \in Nums}
StaticInputs == {Input("&'static str", s, 0) : s \in Texts}
NoInput == Input("none", <<>>, 0)

HandleKeyFrom(k) ==
    CASE k.kind = "String" -> FromString(k.text)
      [] k.kind = "&String" -> FromRefString(k.text)
      [] k.kind = "usize" -> FromUsize(k.num)
      [] k.kind = "&str" -> FromStr(k.text)

\* ---------------------------------------------------------------- Handle
\* Option<Arc<()>>: None, or Some(c) with c the Arc allocation pointed to.
None == <<>>
Some(c) == <<c>>
ArcOf(count) == count[1]

\* struct Handle<T> { key, count, _phantom }.  origin and cloned are history
\* fields: the constructor the handle descends from, and whether the handle
\* itself was made by clone.
MkHandle(key, count, origin, cloned) ==
    [key |-> key, count |-> count, origin |-> origin, cloned |-> cloned]
NoKey == [tag |-> "none", text |-> <<>>, num |-> 0]
NoHandle == MkHandle(NoKey, None, "none", FALSE)

\* impl PartialEq for Handle<T>: self.key == other.key
HandleEqDerived(a, b) == KeyEq(a.key, b.key) /\ a.count = b.count

HandleEq(a, b) == KeyEq(a.key, b.key)

\* impl Hash for Handle<T>: self.key.hash(state)
HandleHashWithCount(h) == HasherWrite(0, KeyHashFeed(h.key) \o h.count)

HandleHash(h) == HasherWrite(0, KeyHashFeed(h.key))

VARIABLES
    handles,    \* bag of the handles that exist
    strong,     \* strong[c]: the strong count of Arc allocation c
    alloc,      \* alloc[c]: "unalloc", "live" or "freed"
    released,   \* released[c]: how many times allocation c was deallocated
    op,         \* the last handler that ran: its name, its input, its handle
    pc,         \* pc[t]: where thread t stands (ConcSpec)
    loc         \* loc[t]: the handle thread t works on, and the count it saw

vars == <<handles, strong, alloc, released, op, pc, loc>>

NoLoc == [h |-> NoHandle, seen |-> 0]

Init ==
    /\ handles = EmptyBag
    /\ strong = [c \in Arcs |-> 0]
    /\ alloc = [c \in Arcs |-> "unalloc"]
    /\ released = [c \in Arcs |-> 0]
    /\ op = [name |-> "init", k |-> NoInput, h |-> NoHandle]
    /\ pc = [t \in Threads |-> "idle"]
    /\ loc = [t \in Threads |-> NoLoc]

\* ------------------------------------------------------------------- Arc
\* Arc::strong_count, the live-strength
StrongCount(c) == strong[c]

\* Arc::new(()): a new allocation whose strong count is 1.
FreshArc ==
    CHOOSE c \in Arcs : /\ alloc[c] = "unalloc"
                        /\ \A d \in Arcs : d < c => alloc[d] # "unalloc"
CanAlloc == \E c \in Arcs : alloc[c] = "unalloc"

ArcNewTwo(s, c) == [s EXCEPT ![c] = 2]

ArcNew(s, c) == [s EXCEPT ![c] = 1]

\* Arc::clone: strong.fetch_add(1).  seen is the count the cloning thread
\* could observe before the operation; an atomic increment does not use it.
FetchAddRacy(s, c, seen) == [s EXCEPT ![c] = seen + 1]

FetchAdd(s, c, seen) == [s EXCEPT ![c] = @ + 1]

\* Drop for Arc: strong.fetch_sub(1); the thread that saw 1 deallocates.
FetchSub(s, c) == [s EXCEPT ![c] = @ - 1]

\* Option<Arc<()>>::clone
OptionCloneNoInc(count, s, seen) == s

OptionClone(count, s, seen) ==
    IF count = None THEN s ELSE FetchAdd(s, ArcOf(count), seen)

\* ---------------------------------------------------- handlers (Spec)
Population == BagCardinality(handles)
One(h) == SetToBag({h})

\* The handles of a bag that hold allocation c.
RECURSIVE CopiesOver(_, _)
CopiesOver(bag, S) ==
    IF S = {} THEN 0
    ELSE LET h == CHOOSE x \in S : TRUE
         IN CopiesIn(h, bag) + CopiesOver(bag, S \ {h})
SharingIn(bag, c) == CopiesOver(bag, {h \in BagToSet(bag) : h.count = Some(c)})
Sharing(c) == SharingIn(handles, c)

\* Handle::new(k)
NewInterned(k) ==
    /\ Population < MaxHandles
    /\ LET same == {x \in BagToSet(handles) :
                        x.count # None /\ KeyEq(x.key, HandleKeyFrom(k))}
       IN IF same = {}
          THEN /\ CanAlloc
               /\ LET h == MkHandle(HandleKeyFrom(k), Some(FreshArc), "new", FALSE)
                  IN /\ handles' = handles (+) One(h)
                     /\ strong' = ArcNew(strong, FreshArc)
                     /\ alloc' = [alloc EXCEPT ![FreshArc] = "live"]
                     /\ op' = [name |-> "new", k |-> k, h |-> h]
          ELSE LET x == CHOOSE x \in same : TRUE
                   h == MkHandle(HandleKeyFrom(k), x.count, "new", FALSE)
               IN /\ handles' = handles (+) One(h)
                  /\ strong' = FetchAdd(strong, ArcOf(x.count), 0)
                  /\ alloc' = alloc
                  /\ op' = [name |-> "new", k |-> k, h |-> h]
    /\ UNCHANGED <<released, pc, loc>>

New(k) ==
    /\ Population < MaxHandles
    /\ CanAlloc
    /\ LET c == FreshArc
           h == MkHandle(HandleKeyFrom(k), Some(c), "new", FALSE)
       IN /\ handles' = handles (+) One(h)
          /\ strong' = ArcNew(strong, c)
          /\ alloc' = [alloc EXCEPT ![c] = "live"]
          /\ op' = [name |-> "new", k |-> k, h |-> h]
    /\ UNCHANGED <<released, pc, loc>>

\* Handle::from_static(key)
FromStatic(k) ==
    /\ Population < MaxHandles
    /\ LET h == MkHandle(FromStrStatic(k.text), None, "from_static", FALSE)
       IN /\ handles' = handles (+) One(h)
          /\ op' = [name |-> "from_static", k |-> k, h |-> h]
    /\ UNCHANGED <<strong, alloc, released, pc, loc>>

\* <Handle<T> as Clone>::clone(&s)
CloneFresh(s) ==
    /\ Population < MaxHandles
    /\ s \in BagToSet(handles)
    /\ CanAlloc
    /\ LET c == FreshArc
           h == MkHandle(KeyClone(s.key), Some(c), s.origin, TRUE)
       IN /\ handles' = handles (+) One(h)
          /\ strong' = ArcNew(strong, c)
          /\ alloc' = [alloc EXCEPT ![c] = "live"]
          /\ op' = [name |-> "clone", k |-> NoInput, h |-> h]
    /\ UNCHANGED <<released, pc, loc>>

Clone(s) ==
    /\ Population < MaxHandles
    /\ s \in BagToSet(handles)
    /\ LET seen == IF s.count = None THEN 0 ELSE strong[ArcOf(s.count)]
           h == MkHandle(KeyClone(s.key), s.count, s.origin, TRUE)
       IN /\ handles' = handles (+) One(h)
          /\ strong' = OptionClone(s.count, strong, seen)
          /\ op' = [name |-> "clone", k |-> NoInput, h |-> h]
    /\ UNCHANGED <<alloc, released, pc, loc>>

\* drop(h): the key is dropped, then the count.  op keeps the dropped
\* handle without its key, which no longer exists.
Drop(h) ==
    /\ h \in BagToSet(handles)
    /\ handles' = handles (-) One(h)
    /\ op' = [name |-> "drop", k |-> NoInput, h |-> [h EXCEPT !.key = NoKey]]
    /\ IF h.count = None
       THEN UNCHANGED <<strong, alloc, released>>
       ELSE LET c == ArcOf(h.count) IN
            /\ strong' = FetchSub(strong, c)
            /\ IF strong[c] = 1
               THEN /\ alloc' = [alloc EXCEPT ![c] = "freed"]
                    /\ released' = [released EXCEPT ![c] = @ + 1]
               ELSE UNCHANGED <<alloc, released>>
    /\ UNCHANGED <<pc, loc>>

Next ==
    \/ \E k \in Inputs : New(k)
    \/ \E k \in StaticInputs : FromStatic(k)
    \/ \E s \in BagToSet(handles) : Clone(s)
    \/ \E h \in BagToSet(handles) : Drop(h)

Spec == Init /\ [][Next]_vars

\* ------------------------------------------------ thread steps (ConcSpec)
\* Each thread runs clone and drop as the code does: clone copies the key
\* and then performs the fetch_add of Arc::clone; drop drops the key, then
\* performs the fetch_sub of Arc's Drop, and deallocates if it saw 1.
\* A handle that is being cloned is borrowed (&self) and cannot be dropped.
ConcInputs == {Input("&str", <<>>, 0)}
ConcStaticInputs == {Input("&'static str", <<>>, 0)}

Cloning(t) == pc[t] = "clone_count"
Borrowed(h) == Cardinality({t \in Threads : Cloning(t) /\ loc[t].h = h})
InFlight == Cardinality({t \in Threads : Cloning(t)})

\* Handle::new(k), called by any thread: the new Arc is not shared yet.
CNew(k) ==
    /\ Population + InFlight < MaxHandles
    /\ CanAlloc
    /\ LET c == FreshArc
           h == MkHandle(HandleKeyFrom(k), Some(c), "new", FALSE)
       IN /\ handles' = handles (+) One(h)
          /\ strong' = ArcNew(strong, c)
          /\ alloc' = [alloc EXCEPT ![c] = "live"]
    /\ UNCHANGED <<released, op, pc, loc>>

\* Handle::from_static(key), called by any thread.
CFromStatic(k) ==
    /\ Population + InFlight < MaxHandles
    /\ handles' = handles (+)
                  One(MkHandle(FromStrStatic(k.text), None, "from_static", FALSE))
    /\ UNCHANGED <<strong, alloc, released, op, pc, loc>>

\* clone, first field: key: self.key.clone().  s stays borrowed.
CloneKey(t, s) ==
    /\ pc[t] = "idle"
    /\ Population + InFlight < MaxHandles
    /\ s \in BagToSet(handles)
    /\ loc' = [loc EXCEPT ![t] =
                 [h |-> s,
                  seen |-> IF s.count = None THEN 0 ELSE strong[ArcOf(s.count)]]]
    /\ pc' = [pc EXCEPT ![t] = "clone_count"]
    /\ UNCHANGED <<handles, strong, alloc, released, op>>

\* clone, second field: count: self.count.clone(); the new handle exists.
CloneCount(t) ==
    /\ pc[t] = "clone_count"
    /\ LET s == loc[t].h IN
       /\ strong' = OptionClone(s.count, strong, loc[t].seen)
       /\ handles' = handles (+) One(MkHandle(KeyClone(s.key), s.count, s.origin, TRUE))
    /\ pc' = [pc EXCEPT ![t] = "idle"]
    /\ loc' = [loc EXCEPT ![t] = NoLoc]
    /\ UNCHANGED <<alloc, released, op>>

\* drop: the thread takes the handle out of use and drops its key.
DropKey(t, h) ==
    /\ pc[t] = "idle"
    /\ h \in BagToSet(handles)
    /\ CopiesIn(h, handles) > Borrowed(h)
    /\ handles' = handles (-) One(h)
    /\ loc' = [loc EXCEPT ![t] = [h |-> h, seen |-> 0]]
    /\ pc' = [pc EXCEPT ![t] = "drop_count"]
    /\ UNCHANGED <<strong, alloc, released, op>>

\* drop of the count: nothing for None; fetch_sub(1) for Some.
DropCount(t) ==
    /\ pc[t] = "drop_count"
    /\ IF loc[t].h.count = None
       THEN /\ pc' = [pc EXCEPT ![t] = "idle"]
            /\ loc' = [loc EXCEPT ![t] = NoLoc]
            /\ UNCHANGED strong
       ELSE LET c == ArcOf(loc[t].h.count) IN
            /\ strong' = FetchSub(strong, c)
            /\ IF strong[c] = 1
               THEN /\ pc' = [pc EXCEPT ![t] = "drop_slow"]
                    /\ UNCHANGED loc
               ELSE /\ pc' = [pc EXCEPT ![t] = "idle"]
                    /\ loc' = [loc EXCEPT ![t] = NoLoc]
    /\ UNCHANGED <<handles, alloc, released, op>>

\* Arc::drop_slow: the thread that saw the count at 1 deallocates.
DropSlow(t) ==
    /\ pc[t] = "drop_slow"
    /\ LET c == ArcOf(loc[t].h.count) IN
       /\ alloc' = [alloc EXCEPT ![c] = "freed"]
       /\ released' = [released EXCEPT ![c] = @ + 1]
    /\ pc' = [pc EXCEPT ![t] = "idle"]
    /\ loc' = [loc EXCEPT ![t] = NoLoc]
    /\ UNCHANGED <<handles, strong, op>>

ConcNext ==
    \/ \E k \in ConcInputs : CNew(k)
    \/ \E k \in ConcStaticInputs : CFromStatic(k)
    \/ \E t \in Threads : \E s \in BagToSet(handles) : CloneKey(t, s)
    \/ \E t \in Threads : CloneCount(t)
    \/ \E t \in Threads : \E h \in BagToSet(handles) : DropKey(t, h)
    \/ \E t \in Threads : DropCount(t)
    \/ \E t \in Threads : DropSlow(t)

ConcSpec == Init /\ [][ConcNext]_vars

\* ------------------------------------------------------------ properties
Dynamic(h) == h.count # None
Quiescent == \A t \in Threads : pc[t] = "idle"
Pairs == BagToSet(handles) \X BagToSet(handles)

\* C1: the live-strength of a counter is 1 right after Handle::new and, after
\* any sequence of clone and drop, equals the number of existing handles that
\* share the counter.
C1_LiveStrengthCountsHandles ==
    /\ \A c \in Arcs : alloc[c] = "live" => StrongCount(c) = Sharing(c)
    /\ \A h \in BagToSet(handles) : Dynamic(h) => alloc[ArcOf(h.count)] = "live"
    /\ op.name = "new" => /\ Dynamic(op.h)
                          /\ StrongCount(ArcOf(op.h.count)) = 1

\* The original was dropped, two clones (one of them a clone of a clone or
\* of the original) remain and the count is 2.
C1_Witness ==
    \E c \in Arcs :
        /\ op.name = "drop" /\ op.h.count = Some(c) /\ ~op.h.cloned
        /\ StrongCount(c) = 2 /\ Sharing(c) = 2
        /\ \A h \in BagToSet(handles) : h.count = Some(c) => h.cloned

\* C2: under every interleaving of concurrent clones and drops no update of
\* the counter is lost or duplicated: the live-strength is the number of
\* handles alive plus the drops that have not yet decremented, so it is the
\* number of handles alive once all threads have finished; the counter is
\* not released while a handle sharing it is alive.
C2_AtomicCounting ==
    \A c \in Arcs :
        LET dropping == Cardinality({t \in Threads :
                            pc[t] = "drop_count" /\ loc[t].h.count = Some(c)})
        IN /\ alloc[c] = "live" => StrongCount(c) = Sharing(c) + dropping
           /\ Quiescent /\ alloc[c] = "live" => StrongCount(c) = Sharing(c)
           /\ Sharing(c) > 0 => alloc[c] = "live"
           /\ released[c] <= 1

\* Two threads are in the middle of cloning handles of the same counter.
C2_Witness ==
    \E t, u \in Threads :
        /\ t # u /\ Cloning(t) /\ Cloning(u)
        /\ Dynamic(loc[t].h) /\ loc[t].h.count = loc[u].h.count

\* C3: a counter made by Handle::new is released exactly when the last handle
\* sharing it is dropped: never while a handle sharing it exists, exactly
\* once, and whichever handle is dropped last.
C3_ReleasedWithLastHandle ==
    \A c \in Arcs :
        /\ released[c] <= 1
        /\ alloc[c] = "freed" <=> released[c] = 1
        /\ alloc[c] = "unalloc" => Sharing(c) = 0
        /\ alloc[c] # "unalloc" => (alloc[c] = "freed" <=> Sharing(c) = 0)
        /\ alloc[c] = "live" => StrongCount(c) >= 1

\* The drop of a clone, after the original, released the counter.
C3_Witness ==
    \E c \in Arcs :
        /\ op.name = "drop" /\ op.h.count = Some(c) /\ op.h.cloned
        /\ alloc[c] = "freed" /\ released[c] = 1

\* C4: a handle made by from_static, and every clone descending from it, has
\* no counter.
C4_StaticNeverCounted ==
    \A h \in BagToSet(handles) : h.origin = "from_static" => h.count = None

\* A static handle was cloned and the clone was cloned again.
C4_Witness ==
    /\ op.name = "clone" /\ op.h.origin = "from_static"
    /\ CopiesIn(op.h, handles) >= 2

\* C5: two handles are equal iff their keys are (same variant, same payload);
\* the counters play no part.
C5_EqIsKeyEq ==
    \A p \in Pairs : HandleEq(p[1], p[2]) <=> p[1].key = p[2].key

\* Two handles of separate Handle::new calls, with distinct counters of
\* different live-strength, are equal.
C5_Witness ==
    \E p \in Pairs :
        /\ Dynamic(p[1]) /\ Dynamic(p[2]) /\ p[1].count # p[2].count
        /\ HandleEq(p[1], p[2])
        /\ StrongCount(ArcOf(p[1].count)) # StrongCount(ArcOf(p[2].count))

\* C6: equal handles hash equally, and the hash of a handle is the hash of
\* its key, whatever its counter.
C6_HashConsistent ==
    /\ \A p \in Pairs : HandleEq(p[1], p[2]) => HandleHash(p[1]) = HandleHash(p[2])
    /\ \A h \in BagToSet(handles) : HandleHash(h) = KeyHash(h.key)

\* Two equal handles with distinct counters exist (and hash equally).
C6_Witness ==
    \E p \in Pairs :
        /\ Dynamic(p[1]) /\ Dynamic(p[2]) /\ p[1].count # p[2].count
        /\ HandleEq(p[1], p[2])
        /\ HandleHash(p[1]) = HandleHash(p[2])
        /\ Len(p[1].key.text) = MaxLen

\* C7: key equality is variant-sensitive: equal keys have the same variant
\* and payload, and a handle made by from_static never equals one made by
\* Handle::new, the same text included.
C7_VariantSensitive ==
    \A p \in Pairs :
        /\ KeyEq(p[1].key, p[2].key) =>
              /\ p[1].key.tag = p[2].key.tag
              /\ p[1].key.text = p[2].key.text
              /\ p[1].key.num = p[2].key.num
        /\ p[1].origin = "from_static" /\ p[2].origin = "new" =>
              ~HandleEq(p[1], p[2]) /\ ~HandleEq(p[2], p[1])

\* Handle::from_static(s) and Handle::new(s), s a text slice, both exist.
C7_Witness ==
    \E a \in BagToSet(handles) :
        /\ a.origin = "from_static"
        /\ op.name = "new" /\ op.k.kind = "&str" /\ op.k.text = a.key.text
        /\ Len(op.k.text) = MaxLen
        /\ op.h \in BagToSet(handles)

C9_CloneFrame ==
    [][\A s \in BagToSet(handles) : Clone(s) =>
          LET h == op'.h IN
          /\ KeyEq(h.key, s.key) /\ HandleEq(h, s)
          /\ HandleHash(h) = HandleHash(s)
          /\ h.count = s.count
          /\ handles' = handles (+) One(h)
          /\ CopiesIn(s, handles') >= CopiesIn(s, handles)
          /\ alloc' = alloc /\ released' = released
          /\ \A c \in Arcs :
                strong'[c] = IF s.count = Some(c) THEN strong[c] + 1 ELSE strong[c]
    ]_vars

\* A static handle and a counted handle have each been cloned.
C9_Witness ==
    /\ op.name = "clone" /\ Dynamic(op.h)
    /\ StrongCount(ArcOf(op.h.count)) = 2
    /\ \E a \in BagToSet(handles) : a.origin = "from_static" /\ a.cloned

\* C10: every Handle::new allocates a fresh counter at live-strength 1, even
\* when a handle with an equal key exists, and no handler changes or
\* releases a counter other than the one of the handle it acts on.
C10_FamiliesIndependent ==
    [][/\ \A d \in Arcs : op'.h.count # Some(d) =>
              /\ strong'[d] = strong[d]
              /\ alloc'[d] = alloc[d]
              /\ released'[d] = released[d]
       /\ op'.name = "new" /\ handles' # handles =>
              /\ Dynamic(op'.h)
              /\ alloc[ArcOf(op'.h.count)] = "unalloc"
              /\ alloc'[ArcOf(op'.h.count)] = "live"
              /\ strong'[ArcOf(op'.h.count)] = 1
              /\ SharingIn(handles', ArcOf(op'.h.count)) = 1
    ]_vars

\* After Handle::new on a key that a cloned handle already has, the new
\* counter stands at 1 and the other at 2.
C10_Witness ==
    \E a \in BagToSet(handles) :
        /\ op.name = "new" /\ Dynamic(a) /\ a.count # op.h.count
        /\ KeyEq(a.key, op.h.key)
        /\ StrongCount(ArcOf(a.count)) = 2
        /\ StrongCount(ArcOf(op.h.count)) = 1

====
